---- MODULE Spec2Model ----
(***************************************************************************)
(* A model of gam/gam.py: the GAM driver object (normalisation, one        *)
(* k-medoids clustering run, the explanation builder and the automatic     *)
(* cluster-count selector), together with the collaborators it calls.      *)
(*                                                                         *)
(* Numbers.  A normalised weight |x| / sum|x| is an exact fraction         *)
(* <<num, den>> in lowest terms, so that two weights are equal in the      *)
(* model exactly when the quotients are equal; 0/0 (numpy's nan) is        *)
(* <<0, 0>>.  Distances are integers (rank statistics), a silhouette score *)
(* is a fraction in lowest terms with a positive denominator.              *)
(***************************************************************************)
EXTENDS Integers, Sequences, FiniteSets, TLC

\* ------------------------------------------------------------------ bounds
\* number of data rows of the attribution csv
NInst == 4
\* largest max_clusters argument passed to get_optimal_clustering
MaxClusters == 5
\* longest membership array handed to get_subpopulation_sizes on its own
MaxLen == 4
\* largest cluster id in such an array
MaxId == 2

\* ------------------------------------------------------------ input domain
\* header row of the csv (the docstring's example labels)
FeatureLabels == <<"height", "weight">>

NFeat == Len(FeatureLabels)

\* the data rows a csv is drawn from: both strict orders (one with a negative
\* entry each) and a tie; a csv may repeat a row
Rows == { <<1, -2>>, <<-2, 1>>, <<1, 1>> }

\* a row whose absolute sum is zero
ZeroRow == [j \in 1..NFeat |-> 0]

\* values of the constructor's distance argument; "euclidean" stands for any
\* name that is neither "spearman" nor "kendall_tau"
Distances == {"spearman", "kendall_tau", "euclidean"}

\* values of the constructor's k argument: a single cluster, and the default
KInit == {1, 2}

\* the value of an attribute that was never assigned (Python's None)
None == <<>>

\* ------------------------------------------------------------- arithmetic
\* the element of a one-element set; {F(x) : x \in {e}} computes e once,
\* where LET x == e would compute it again at every use
The(S) == CHOOSE x \in S : TRUE

Abs(x) == IF x < 0 THEN -x ELSE x

RECURSIVE Gcd(_, _)
Gcd(a, b) == IF b = 0 THEN a ELSE Gcd(b, a % b)

\* sorted(S): the integers of S in ascending order
RECURSIVE sorted(_)
sorted(S) ==
    IF S = {} THEN <<>>
    ELSE The({<<least>> \o sorted(S \ {least}) :
              least \in {x \in S : \A y \in S : x <= y}})

RECURSIVE SumSeq(_)
SumSeq(s) == IF s = <<>> THEN 0 ELSE Head(s) + SumSeq(Tail(s))

\* the quotient num / den of two integers, den >= 0, as a fraction in lowest
\* terms; den = 0 happens only as 0 / 0, which is nan
Frac(num, den) ==
    IF den = 0 THEN <<0, 0>>
    ELSE LET g == Gcd(Abs(num), den) IN <<num \div g, den \div g>>

NaN == <<0, 0>>

IsNaN(w) == w[2] = 0

\* comparison of two defined fractions
FracLess(a, b) == a[1] * b[2] < b[1] * a[2]

\* --------------------------------------------------------------- normalize
\* GAM.normalize: abs(a) / sum(abs(a)), row by row (keepdims broadcasting)
normalize(attributions) ==
    [i \in DOMAIN attributions |->
        LET row   == attributions[i]
            total == SumSeq([j \in DOMAIN row |-> Abs(row[j])])
        IN  [j \in DOMAIN row |-> Frac(Abs(row[j]), total)]]

HasNaN(data) == \E i \in DOMAIN data : \E j \in DOMAIN data[i] : IsNaN(data[i][j])

\* -------------------------------------------------------- distance metrics
\* twice the average rank of entry i of v (ties share the average rank)
Rank2(v, i) ==
    2 * Cardinality({j \in DOMAIN v : FracLess(v[j], v[i])})
      + Cardinality({j \in DOMAIN v : v[j] = v[i]}) + 1

\* Spearman-squared distance: the sum of squared rank differences (here of
\* doubled ranks, i.e. scaled by the constant 4)
spearman_squared_distance(a, b) ==
    SumSeq([i \in DOMAIN a |->
        The({d * d : d \in {Rank2(a, i) - Rank2(b, i)}})])

\* Kendall-tau distance: the number of discordant pairs, which is what the
\* merge-sort inversion count computes
mergeSortDistance(a, b) ==
    Cardinality({p \in (DOMAIN a) \X (DOMAIN a) :
        /\ p[1] < p[2]
        /\ \/ FracLess(a[p[1]], a[p[2]]) /\ FracLess(b[p[2]], b[p[1]])
           \/ FracLess(a[p[2]], a[p[1]]) /\ FracLess(b[p[1]], b[p[2]])})

\* the function a name of a distance function stands for
Dist(func, a, b) ==
    IF func = "mergeSortDistance" THEN mergeSortDistance(a, b)
    ELSE spearman_squared_distance(a, b)

\* all-pairs distance matrix of the rows of data
DistMatrix(func, data) ==
    [i \in DOMAIN data |-> [j \in DOMAIN data |-> Dist(func, data[i], data[j])]]

\* ------------------------------------------------------ k-medoids clusterer
\* KMedoids(k, dist_func, max_iter, tol).fit(data): partitioning around
\* medoids.  Rows are numbered 1..n; cluster ids are 0..k-1 and cluster c has
\* the medoid medoids[c + 1].

\* default arguments of GAM._cluster
max_iter == 1000

\* tol = 0.0001 = 1/10000, as a fraction
tol == <<1, 10000>>

\* the initial medoids: any k pairwise distinct rows (a random sample of
\* the rows), listed in row order
InitCenters(n, k) ==
    {sorted(S) : S \in {T \in SUBSET (1..n) : Cardinality(T) = k}}

\* every point goes to the medoid at the least distance, the lowest cluster
\* id winning a tie
Assign(D, medoids) ==
    [i \in DOMAIN D |->
        (CHOOSE c \in DOMAIN medoids :
            /\ \A c2 \in DOMAIN medoids : D[i][medoids[c]] <= D[i][medoids[c2]]
            /\ \A c2 \in 1..(c - 1) : D[i][medoids[c2]] > D[i][medoids[c]]) - 1]

\* total distance of the members of cluster id to the row m
InCost(D, members, id, m) ==
    SumSeq([i \in DOMAIN members |-> IF members[i] = id THEN D[i][m] ELSE 0])

\* total within-cluster cost of a partition
Cost(D, medoids, members) ==
    SumSeq([i \in DOMAIN members |-> D[i][medoids[members[i] + 1]]])

\* the medoid of every cluster recomputed: the member with the least total
\* distance to the members (the lowest row winning a tie); the medoid of a
\* cluster without members is retained
UpdateMedoids(D, medoids, members) ==
    [c \in DOMAIN medoids |->
        LET mem == {i \in DOMAIN members : members[i] = c - 1}
        IN  IF mem = {} THEN medoids[c]
            ELSE CHOOSE m \in mem :
                   /\ \A m2 \in mem : InCost(D, members, c - 1, m) <= InCost(D, members, c - 1, m2)
                   /\ \A m2 \in mem : m2 < m => InCost(D, members, c - 1, m2) > InCost(D, members, c - 1, m)]

\* the iteration: recompute the medoids, reassign, stop when the cost
\* improves by no more than tol or after max_iter rounds
RECURSIVE Iterate(_, _, _, _)
Iterate(D, medoids, members, iter) ==
    IF iter >= max_iter THEN [ok |-> TRUE, members |-> members, centers |-> medoids]
    ELSE The({ The({
            IF (Cost(D, medoids, members) - Cost(D, newMedoids, newMembers)) * tol[2] <= tol[1]
            THEN [ok |-> TRUE, members |-> newMembers, centers |-> newMedoids]
            ELSE Iterate(D, newMedoids, newMembers, iter + 1)
         : newMembers \in {Assign(D, newMedoids)} })
         : newMedoids \in {UpdateMedoids(D, medoids, members)} })

\* fit from the initial medoids init, D the distances between the rows
fit(D, init) == The({Iterate(D, init, members, 0) : members \in {Assign(D, init)}})

\* a run that raised: no members, no centers
Failed == [ok |-> FALSE, members |-> None, centers |-> None]

\* what KMedoids(k, dist_func).fit(data) can end in.  k outside 1..n fails;
\* on data holding undefined (nan) weights every distance is undefined, and the
\* run may fail or return any partition of the right shape
FitOutcomes(data, k, dist_func) ==
    LET n == Len(data)
    IN  IF k < 1 \/ k > n THEN {Failed}
        ELSE IF HasNaN(data)
        THEN {Failed} \cup
             {[ok |-> TRUE, members |-> m, centers |-> c] :
                 m \in [1..n -> 0..(k - 1)], c \in InitCenters(n, k)}
        ELSE UNION {{fit(D, init) : init \in InitCenters(n, k)} :
                       D \in {DistMatrix(dist_func, data)}}

\* -------------------------------------------------------- silhouette score
FracAdd(x, y) == Frac(x[1] * y[2] + y[1] * x[2], x[2] * y[2])

RECURSIVE FracSum(_)
FracSum(s) == IF s = <<>> THEN <<0, 1>> ELSE FracAdd(Head(s), FracSum(Tail(s)))

\* the cluster ids that occur in a membership array
Labels(members) == {members[i] : i \in DOMAIN members}

\* sklearn's silhouette_score accepts 2 .. n_samples - 1 distinct labels
SilhouetteDefined(members) ==
    /\ Cardinality(Labels(members)) >= 2
    /\ Cardinality(Labels(members)) <= Len(members) - 1

\* mean distance from row i to the rows of S, as a fraction
MeanDist(D, i, S) == Frac(SumSeq([j \in DOMAIN D |-> IF j \in S THEN D[i][j] ELSE 0]), Cardinality(S))

\* silhouette coefficient of row i: (b - a) / max(a, b), 0 for a row alone in
\* its cluster and 0 when a = b = 0
SilhouetteSample(D, members, i) ==
    LET own == {j \in DOMAIN members : j # i /\ members[j] = members[i]}
        others == Labels(members) \ {members[i]}
        bs == {MeanDist(D, i, {j \in DOMAIN members : members[j] = l}) : l \in others}
    IN  IF own = {} THEN <<0, 1>>
        ELSE The({ The({
                IF a[1] * b[2] = 0 /\ b[1] * a[2] = 0 THEN <<0, 1>>
                ELSE Frac(b[1] * a[2] - a[1] * b[2],
                          IF a[1] * b[2] > b[1] * a[2] THEN a[1] * b[2] ELSE b[1] * a[2])
             : b \in {x \in bs : \A y \in bs : ~FracLess(y, x)} })
             : a \in {MeanDist(D, i, own)} })

\* silhouette_score(D, members, metric="precomputed"): the mean coefficient
silhouette_score(D, members) ==
    The({Frac(total[1], total[2] * Len(members)) :
         total \in {FracSum([i \in DOMAIN members |-> SilhouetteSample(D, members, i)])}})

\* ------------------------------------------------------------------ state
VARIABLES
    csv,                      \* the rows of the file at attributions_path
    distance,                 \* self.distance
    k,                        \* self.k
    attributions,             \* self.attributions
    normalized_attributions,  \* self.normalized_attributions
    feature_labels,           \* self.feature_labels
    subpopulations,           \* self.subpopulations
    subpopulation_sizes,      \* self.subpopulation_sizes
    explanations,             \* self.explanations
    silh_scores,              \* self.silh_scores
    pc,                       \* position inside get_optimal_clustering
    max_clusters,             \* its local max_clusters (after line 141)
    n_cluster,                \* its loop variable
    silh_list,                \* its local silh_list
    arg,                      \* the max_clusters argument of the last call
    call,                     \* the method called last
    outcome,                  \* how that call ended: "returned" or "raised"
    clusters,                 \* the KMedoids object of the last clustering run
    my_func,                  \* the metric of the last pairwise_distances call
    run_site,                 \* the generate() call site of the last run
    ran,                      \* whether the current call has run a clustering
    sizes_arg,                \* argument of a direct get_subpopulation_sizes call
    sizes_ret                 \* and its return value

vars == <<csv, distance, k, attributions, normalized_attributions, feature_labels,
          subpopulations, subpopulation_sizes, explanations, silh_scores,
          pc, max_clusters, n_cluster, silh_list, arg, call, outcome,
          clusters, my_func, run_site, ran, sizes_arg, sizes_ret>>

attrs == <<subpopulations, subpopulation_sizes, explanations>>

locals == <<max_clusters, n_cluster, silh_list>>

direct == <<sizes_arg, sizes_ret>>

\* ------------------------------------------------------ GAM, leaves first
\* GAM.get_subpopulation_sizes: Counter, then the counts in sorted key order
\* variant: the counts in the Counter's own order (first occurrence), the
\* sorted() call forgotten
RECURSIVE FirstSeen(_)
FirstSeen(s) ==
    IF s = <<>> THEN <<>>
    ELSE <<Head(s)>> \o FirstSeen(SelectSeq(Tail(s), LAMBDA x : x # Head(s)))

get_subpopulation_sizes_unsorted(members) ==
    LET ids == FirstSeen(members)
    IN  [i \in DOMAIN ids |-> Cardinality({j \in DOMAIN members : members[j] = ids[i]})]

get_subpopulation_sizes(members) ==
    LET index_to_size == [id \in Labels(members) |->
                             Cardinality({i \in DOMAIN members : members[i] = id})]
        ids == sorted(DOMAIN index_to_size)
    IN  [i \in DOMAIN ids |-> index_to_size[ids[i]]]

\* zip(labels, weights): pairs up to the shorter of the two
zip(labels, weights) ==
    LET len == IF Len(labels) < Len(weights) THEN Len(labels) ELSE Len(weights)
    IN  [j \in 1..len |-> <<labels[j], weights[j]>>]

\* variant: the row at the position of the center in the list, not at the
\* center's index
_get_explanations_by_position(centers, normalized, labels) ==
    [c \in DOMAIN centers |-> zip(labels, normalized[c])]

\* GAM._get_explanations: one list of (label, weight) pairs per center
_get_explanations(centers, normalized, labels) ==
    [c \in DOMAIN centers |-> zip(labels, normalized[centers[c]])]

\* the default of _cluster's distance_function parameter, which generate()
\* leaves in place
DefaultDistanceFunction == "spearman_squared_distance"

\* GAM._cluster: fit a fresh KMedoids, then store members, sizes, explanations
_cluster(distance_function) ==
    \E r \in FitOutcomes(normalized_attributions', k', distance_function) :
        /\ clusters' = [k |-> k', dist_func |-> distance_function, ok |-> r.ok,
                        members |-> r.members, centers |-> r.centers]
        /\ ran' = TRUE
        /\ IF r.ok
           THEN /\ subpopulations' = r.members
                /\ subpopulation_sizes' = get_subpopulation_sizes(r.members)
                /\ explanations' = _get_explanations(r.centers, normalized_attributions',
                                                     feature_labels')
           ELSE UNCHANGED attrs

\* GAM._read_local
_read_local ==
    /\ attributions' = csv
    /\ feature_labels' = FeatureLabels

\* GAM.generate, with self.k already set to k'
generate(site) ==
    /\ _read_local
    /\ normalized_attributions' = normalize(attributions')
    /\ _cluster(DefaultDistanceFunction)
    /\ run_site' = site

\* ------------------------------------------------------------------- Init
Datasets == [1..NInst -> Rows]

Init ==
    /\ csv \in Datasets
    /\ distance \in Distances
    /\ k \in KInit
    /\ attributions = None
    /\ normalized_attributions = None
    /\ feature_labels = None
    /\ subpopulations = None
    /\ subpopulation_sizes = None
    /\ explanations = None
    /\ silh_scores = None
    /\ pc = "idle"
    /\ max_clusters = 0
    /\ n_cluster = 0
    /\ silh_list = <<>>
    /\ arg = 0
    /\ call = "none"
    /\ outcome = "none"
    /\ clusters = None
    /\ my_func = "unbound"
    /\ run_site = "none"
    /\ ran = FALSE
    /\ sizes_arg = None
    /\ sizes_ret = None

\* ----------------------------------------------------------------- actions
\* a direct call of generate()
Generate ==
    /\ pc = "idle"
    /\ k' = k
    /\ generate("direct")
    /\ call' = "generate"
    /\ outcome' = IF clusters'.ok THEN "returned" ELSE "raised"
    /\ arg' = 0
    /\ max_clusters' = 0
    /\ my_func' = "unbound"
    /\ UNCHANGED <<csv, distance, silh_scores, pc, n_cluster, silh_list, direct>>

\* variant: max_clusters taken as given
max2_unclamped(mc) == mc

\* max(2, max_clusters), line 141
max2(mc) == IF mc < 2 THEN 2 ELSE mc

\* get_optimal_clustering(max_clusters = mc), lines 140-143: the loop body is
\* entered when range(2, max_clusters + 1) is not empty
BeginOptimal ==
    /\ pc = "idle"
    /\ \E mc \in 1..MaxClusters :
        /\ arg' = mc
        /\ max_clusters' = max2(mc)
    /\ silh_list' = <<>>
    /\ n_cluster' = 2
    /\ pc' = IF 2 <= max_clusters' THEN "scan" ELSE "select"
    /\ call' = "get_optimal_clustering"
    /\ outcome' = "running"
    /\ ran' = FALSE
    /\ my_func' = "unbound"
    /\ UNCHANGED <<csv, distance, k, attributions, normalized_attributions,
                   feature_labels, attrs, silh_scores, clusters, run_site, direct>>

\* the metric lines 150-155 bind for the distance setting
MetricOf(d) ==
    IF d = "spearman" THEN "spearman_squared_distance"
    ELSE IF d = "kendall_tau" THEN "mergeSortDistance"
    ELSE "unbound"

\* whether lines 156-160 raise: my_func unbound, nan in the data
\* (pairwise_distances), or a label count silhouette_score rejects
ScoringRaises(func, data, members) ==
    \/ func = "unbound"
    \/ HasNaN(data)
    \/ ~SilhouetteDefined(members)

\* one pass of the loop body, lines 144-161
ScanCandidate ==
    /\ pc = "scan"
    /\ k' = n_cluster
    /\ generate("scan")
    /\ IF ~clusters'.ok
       THEN /\ pc' = "idle"
            /\ outcome' = "raised"
            /\ silh_list' = <<>>
            /\ n_cluster' = 0
            /\ UNCHANGED my_func
       ELSE /\ my_func' = MetricOf(distance)
            /\ IF ScoringRaises(my_func', normalized_attributions', subpopulations')
               THEN /\ pc' = "idle"
                    /\ outcome' = "raised"
                    /\ silh_list' = <<>>
                    /\ n_cluster' = 0
               ELSE /\ \E D \in {DistMatrix(my_func', normalized_attributions')} :
                          silh_list' = Append(silh_list,
                              <<silhouette_score(D, subpopulations'), n_cluster>>)
                    /\ n_cluster' = n_cluster + 1
                    /\ pc' = IF n_cluster < max_clusters THEN "scan" ELSE "select"
                    /\ UNCHANGED outcome
    /\ UNCHANGED <<csv, distance, silh_scores, max_clusters, arg, call, direct>>

\* list.sort() on (score, k) tuples: ascending, by score and then by k
TupleLess(x, y) == FracLess(x[1], y[1]) \/ (x[1] = y[1] /\ x[2] < y[2])

RECURSIVE Insert(_, _)
Insert(x, s) ==
    IF s = <<>> THEN <<x>>
    ELSE IF TupleLess(x, Head(s)) THEN <<x>> \o s
    ELSE <<Head(s)>> \o Insert(x, Tail(s))

\* variant: ascending by score, and by descending k among equal scores
TupleLessKDescending(x, y) == FracLess(x[1], y[1]) \/ (x[1] = y[1] /\ x[2] > y[2])

RECURSIVE InsertKDescending(_, _)
InsertKDescending(x, s) ==
    IF s = <<>> THEN <<x>>
    ELSE IF TupleLessKDescending(x, Head(s)) THEN <<x>> \o s
    ELSE <<Head(s)>> \o InsertKDescending(x, Tail(s))

RECURSIVE sort_k_descending(_)
sort_k_descending(s) ==
    IF s = <<>> THEN <<>> ELSE InsertKDescending(Head(s), sort_k_descending(Tail(s)))

RECURSIVE sort(_)
sort(s) == IF s = <<>> THEN <<>> ELSE Insert(Head(s), sort(Tail(s)))

\* variant: the first entry of the sorted table
nCluster_first(scores) == scores[1][2]

\* self.silh_scores[-1][1], line 173
nCluster(scores) == scores[Len(scores)][2]

\* variant: the winning k is set, the clustering of the last candidate kept
SelectBest_reusing_scan ==
    /\ pc = "select"
    /\ silh_scores' = sort(silh_list)
    /\ IF silh_scores' = <<>>
       THEN /\ outcome' = "raised"
            /\ UNCHANGED k
       ELSE /\ k' = nCluster(silh_scores')
            /\ outcome' = "returned"
    /\ pc' = "idle"
    /\ silh_list' = <<>>
    /\ n_cluster' = 0
    /\ UNCHANGED <<csv, distance, max_clusters, arg, call, my_func, direct,
                   attributions, normalized_attributions, feature_labels,
                   attrs, clusters, run_site, ran>>

\* after the loop, lines 166-175; indexing an empty score table raises
SelectBest ==
    /\ pc = "select"
    /\ silh_scores' = sort(silh_list)
    /\ IF silh_scores' = <<>>
       THEN /\ outcome' = "raised"
            /\ UNCHANGED <<k, attributions, normalized_attributions, feature_labels,
                           attrs, clusters, run_site, ran>>
       ELSE /\ k' = nCluster(silh_scores')
            /\ generate("final")
            /\ outcome' = IF clusters'.ok THEN "returned" ELSE "raised"
    /\ pc' = "idle"
    /\ silh_list' = <<>>
    /\ n_cluster' = 0
    /\ UNCHANGED <<csv, distance, max_clusters, arg, call, my_func, direct>>

Next ==
    \/ Generate
    \/ BeginOptimal
    \/ ScanCandidate
    \/ SelectBest

Spec == Init /\ [][Next]_vars

\* ------------------------------------------- a csv with a zero-sum row
\* the object built with the default distance over a csv that holds at least
\* one all-zero row; the scan
\* of the selector then always raises, so its last step is never taken
DegenerateRows == {<<1, -2>>, ZeroRow}

DegenerateDatasets ==
    {d \in [1..NInst -> DegenerateRows] : \E i \in 1..NInst : d[i] = ZeroRow}

InitDegenerate ==
    /\ csv \in DegenerateDatasets
    /\ distance = "spearman"
    /\ k \in KInit
    /\ attributions = None
    /\ normalized_attributions = None
    /\ feature_labels = None
    /\ subpopulations = None
    /\ subpopulation_sizes = None
    /\ explanations = None
    /\ silh_scores = None
    /\ pc = "idle"
    /\ max_clusters = 0
    /\ n_cluster = 0
    /\ silh_list = <<>>
    /\ arg = 0
    /\ call = "none"
    /\ outcome = "none"
    /\ clusters = None
    /\ my_func = "unbound"
    /\ run_site = "none"
    /\ ran = FALSE
    /\ sizes_arg = None
    /\ sizes_ret = None

NextDegenerate ==
    \/ Generate
    \/ BeginOptimal
    \/ ScanCandidate

SpecDegenerate == InitDegenerate /\ [][NextDegenerate]_vars

\* ------------------------------ get_subpopulation_sizes called on its own
\* the membership arrays handed to the static method: any cluster ids, with
\* gaps, in any order, the empty array included
MembershipArrays == UNION {[1..n -> 0..MaxId] : n \in 0..MaxLen}

InitSizes ==
    /\ csv = [i \in 1..NInst |-> <<1, 1>>]
    /\ distance = "spearman"
    /\ k = 2
    /\ attributions = None
    /\ normalized_attributions = None
    /\ feature_labels = None
    /\ subpopulations = None
    /\ subpopulation_sizes = None
    /\ explanations = None
    /\ silh_scores = None
    /\ pc = "idle"
    /\ max_clusters = 0
    /\ n_cluster = 0
    /\ silh_list = <<>>
    /\ arg = 0
    /\ call = "none"
    /\ outcome = "none"
    /\ clusters = None
    /\ my_func = "unbound"
    /\ run_site = "none"
    /\ ran = FALSE
    /\ sizes_arg = None
    /\ sizes_ret = None

\* GAM.get_subpopulation_sizes(m)
CallSizes ==
    /\ \E m \in MembershipArrays :
        /\ sizes_arg' = m
        /\ sizes_ret' = get_subpopulation_sizes(m)
    /\ call' = "get_subpopulation_sizes"
    /\ outcome' = "returned"
    /\ UNCHANGED <<csv, distance, k, attributions, normalized_attributions,
                   feature_labels, attrs, silh_scores, pc, locals, arg,
                   clusters, my_func, run_site, ran>>

NextSizes == CallSizes

SpecSizes == InitSizes /\ [][NextSizes]_vars

\* ================================================================ claims
ValidDistances == {"spearman", "kendall_tau"}

\* the call named c has just returned normally
Returned(c) == pc = "idle" /\ call = c /\ outcome = "returned"

\* a call has just ended, normally or not
Ended(c) == pc = "idle" /\ call = c

\* the recorded score of candidate c in the score table
ScoreOf(c) == silh_scores[CHOOSE i \in DOMAIN silh_scores : silh_scores[i][2] = c][1]

\* the candidates whose recorded score no other candidate exceeds
TopCandidates ==
    {silh_scores[i][2] : i \in {i \in DOMAIN silh_scores :
        \A j \in DOMAIN silh_scores : ~FracLess(silh_scores[i][1], silh_scores[j][1])}}

\* the candidate range of the last get_optimal_clustering call
Candidates == 2..(IF arg < 2 THEN 2 ELSE arg)

\* ------------------------------------------------------------------- C1
\* C1: when get_optimal_clustering returns, every candidate k in
\* 2 .. max(2, max_clusters) has exactly one recorded silhouette score, and
\* self.k is a candidate whose recorded score no other candidate's exceeds.
C1_SelectsHighestScore ==
    Returned("get_optimal_clustering") =>
        /\ Len(silh_scores) = Cardinality(Candidates)
        /\ \A c \in Candidates :
              Cardinality({i \in DOMAIN silh_scores : silh_scores[i][2] = c}) = 1
        /\ k \in Candidates
        /\ k \in TopCandidates

\* a returned selection over k = 2, 3 in which k = 2 scored strictly higher
\* and was selected
C1_Witness ==
    /\ Returned("get_optimal_clustering")
    /\ arg = 3
    /\ k = 2
    /\ FracLess(ScoreOf(3), ScoreOf(2))

\* ------------------------------------------------------------------- C2
\* C2 as stated: when candidates tie for the highest score, the selected k is
\* the smallest of them.
C2_TieSelectsSmallestK ==
    Returned("get_optimal_clustering") =>
        /\ k \in TopCandidates
        /\ \A c \in TopCandidates : k <= c

\* C2 as amended: when candidates tie for the highest score, the selected k
\* is the largest of them.
C2_TieSelectsLargestK ==
    Returned("get_optimal_clustering") =>
        /\ k \in TopCandidates
        /\ \A c \in TopCandidates : c <= k

\* a returned selection in which two candidates share the highest score
C2_Witness ==
    /\ Returned("get_optimal_clustering")
    /\ Cardinality(TopCandidates) >= 2
    /\ \A c \in TopCandidates : c <= k

\* ------------------------------------------------------------------- C3
\* C3: every clustering run is handed the distance function named by the
\* distance setting, and in the selector the same function as the one the
\* silhouette's distance matrix is built with.
C3_ClusterUsesNamedDistance ==
    run_site # "none" =>
        /\ distance \in ValidDistances => clusters.dist_func = MetricOf(distance)
        /\ my_func # "unbound" => clusters.dist_func = my_func

\* ------------------------------------------------------------------- C4
\* C4: with a distance setting that is neither "spearman" nor "kendall_tau",
\* no step of generate() or get_optimal_clustering() runs a clustering or
\* changes k, subpopulations, subpopulation_sizes or explanations, and every
\* call ends in an error.
C4_UnknownDistanceFailsFast ==
    [][distance \notin ValidDistances =>
          /\ UNCHANGED <<k, subpopulations, subpopulation_sizes, explanations>>
          /\ UNCHANGED <<clusters, run_site>>
          /\ pc' = "idle" => outcome' = "raised"]_vars

\* ------------------------------------------------------------------- C5
\* C5: get_subpopulation_sizes(m) sums to len(m), has one entry per distinct
\* cluster id of m, and its i-th entry counts the members of the i-th smallest
\* id occurring in m.
C5_SizesByClusterId ==
    call = "get_subpopulation_sizes" =>
        /\ SumSeq(sizes_ret) = Len(sizes_arg)
        /\ Len(sizes_ret) = Cardinality(Labels(sizes_arg))
        /\ \A id \in Labels(sizes_arg) :
              sizes_ret[1 + Cardinality({x \in Labels(sizes_arg) : x < id})]
                  = Cardinality({i \in DOMAIN sizes_arg : sizes_arg[i] = id})

\* a call on an array whose ids have a gap and do not first occur in order
C5_Witness ==
    /\ call = "get_subpopulation_sizes"
    /\ sizes_arg = <<2, 0, 2>>
    /\ sizes_ret = <<1, 2>>

\* ------------------------------------------------------------------- C6
\* C6: after a clustering run that completed, subpopulation_sizes has exactly
\* k entries, each at least 1, and entry i is the size of cluster i - 1, the
\* cluster of explanation i.
C6_EveryClusterHasMembers ==
    (run_site # "none" /\ clusters.ok) =>
        /\ Len(subpopulation_sizes) = clusters.k
        /\ Len(explanations) = clusters.k
        /\ \A i \in 1..clusters.k :
              /\ subpopulation_sizes[i] >= 1
              /\ subpopulation_sizes[i]
                    = Cardinality({j \in DOMAIN subpopulations : subpopulations[j] = i - 1})

\* ------------------------------------------------------------------- C7
\* a row of the normalised matrix as C7 allows it: |x| / sum|x| entry by
\* entry, non-negative and summing to 1, or an all-zero-weight row
RowNormalised(i) ==
    \/ /\ \A j \in 1..NFeat :
             /\ ~IsNaN(normalized_attributions[i][j])
             /\ normalized_attributions[i][j][1] >= 0
             /\ normalized_attributions[i][j] =
                   Frac(Abs(csv[i][j]), SumSeq([f \in 1..NFeat |-> Abs(csv[i][f])]))
       /\ FracSum(normalized_attributions[i]) = <<1, 1>>
    \/ \A j \in 1..NFeat : normalized_attributions[i][j] = <<0, 1>>

\* C7: every row of the matrix a clustering run was handed is the absolute
\* row divided by its sum (entries >= 0, sum 1) or, for a zero-sum row, an
\* all-zero-weight row; no row of undefined values reaches the clusterer.
C7_NoUndefinedRowClustered ==
    run_site # "none" => \A i \in DOMAIN normalized_attributions : RowNormalised(i)

C9_ExplanationsFromMedoids ==
    (pc = "idle" /\ outcome = "returned") =>
        /\ Len(explanations) = k
        /\ Len(clusters.centers) = k
        /\ \A j \in 1..k :
              /\ Len(explanations[j]) = NFeat
              /\ \A f \in 1..NFeat :
                    explanations[j][f] =
                        <<FeatureLabels[f],
                          Frac(Abs(csv[clusters.centers[j]][f]),
                               SumSeq([g \in 1..NFeat |-> Abs(csv[clusters.centers[j]][g])]))>>

\* a generate() that returned after an earlier selection, with two medoids of
\* different weights, neither of them the row at its own position
C9_Witness ==
    /\ Returned("generate")
    /\ silh_scores # None
    /\ k = 2
    /\ explanations[1] # explanations[2]
    /\ clusters.centers[1] # 1
    /\ clusters.centers[2] # 2

\* ------------------------------------------------------------------ C10
\* C10: when get_optimal_clustering returns, self.k is the k of the last
\* (best) entry of the sorted score table, the last clustering run was the
\* one made after the scan, with that k, and subpopulations,
\* subpopulation_sizes and explanations are the outputs of that run.
C10_FinalRunWithWinningK ==
    Returned("get_optimal_clustering") =>
        /\ k = silh_scores[Len(silh_scores)][2]
        /\ k \in TopCandidates
        /\ run_site = "final"
        /\ clusters.k = k
        /\ subpopulations = clusters.members
        /\ SumSeq(subpopulation_sizes) = Len(clusters.members)
        /\ Len(explanations) = Len(clusters.centers)
        /\ \A j \in DOMAIN explanations :
              \A f \in 1..NFeat :
                  explanations[j][f][2] = normalized_attributions[clusters.centers[j]][f]

\* a selection over k = 2, 3 that returned with the winner k = 2, which is
\* not the candidate scanned last
C10_Witness ==
    /\ Returned("get_optimal_clustering")
    /\ arg = 3
    /\ k = 2
    /\ clusters.k = 2
    /\ run_site = "final"

====
